---- MODULE Spec2Model ----
(***************************************************************************)
(* Conversation / action orchestration of Cart-iA.                         *)
(*                                                                         *)
(* The model follows backend/src/chat/chat.service.ts statement by         *)
(* statement: every `await` of ChatService is one step of the request     *)
(* that executes it, so the requests the single Node process serves        *)
(* concurrently interleave exactly at the awaits.  The relational store is *)
(* the three tables the service reads and writes; the language-model       *)
(* provider is one of the two LlmService variants (OpenAI, Gemini), whose  *)
(* raw behaviour (API failure, unparseable text, schema-invalid text,      *)
(* valid answer) is an input of the step that calls it.                    *)
(***************************************************************************)
EXTENDS Integers, Sequences, FiniteSets, Bags, TLC

(* ------------------------------ bounds -------------------------------- *)

\* requests served concurrently
MaxProcs == 2
\* requests started in one behaviour
MaxCalls == 4

(* ---------------------------- program data ---------------------------- *)

\* SQL NULL / JS null for ids, timestamps and provider handles
NULL == 0

\* ChatController.userId, the single hardcoded actor
userId == 1

\* retrieval threshold of the WHERE clause, in hundredths (0.65)
Threshold == 65

\* session ids: every id that can exist, and one that never does
SessionIds == 1..(MaxCalls + 1)

\* action ids: each turn creates at most one action
ActionIds == 1..MaxCalls

\* values of `content` in the body of POST /chat/:sessionId/messages: missing, the
\* empty string, a text, a number
Contents == {[type |-> "undefined", text |-> ""], [type |-> "string", text |-> ""],
             [type |-> "string", text |-> "bolo"], [type |-> "number", text |-> "7"]}

Providers == {"openai", "gemini"}

\* what the provider's chat endpoint can do on one call
RawAnswers == {"api_error", "unparseable", "schema_invalid", "send_message", "suggest_carts"}

\* the dimensionality of the embeddings of the products table and of embedInput
EmbeddingDimension == 1536

\* what the provider's embedding endpoint can do on one call: fail, return a vector
\* of the dimensionality asked for, or return a vector of another dimensionality
Vectors == {"v1", "v2"}
ShortVectors == {"w1"}
RawEmbeddings == {"api_error"} \cup Vectors \cup ShortVectors

\* the number of components of a vector
Dimension(v) == IF v \in ShortVectors THEN EmbeddingDimension \div 2 ELSE EmbeddingDimension

\* the argument ChatService.addUserMessage does not pass to answerMessage
Undefined == <<"undefined">>

\* products table: id, store and cosine distance (hundredths) to each query vector
Products == {
    [id |-> 1, store_id |-> 1, name |-> "farinha",   price |-> 500, dist |-> [v1 |-> 10, v2 |-> 70]],
    [id |-> 2, store_id |-> 1, name |-> "acucar",    price |-> 400, dist |-> [v1 |-> 50, v2 |-> 64]],
    [id |-> 3, store_id |-> 2, name |-> "ovos",      price |-> 900, dist |-> [v1 |-> 64, v2 |-> 65]],
    [id |-> 4, store_id |-> 2, name |-> "chocolate", price |-> 700, dist |-> [v1 |-> 65, v2 |-> 90]],
    [id |-> 5, store_id |-> 3, name |-> "fermento",  price |-> 300, dist |-> [v1 |-> 90, v2 |-> 66]] }

VARIABLES
    provider,               \* the LlmService variant injected into ChatService
    chat_sessions,          \* table chat_sessions: set of rows
    chat_messages,          \* table chat_messages: rows in insertion order
    chat_messages_actions,  \* table chat_messages_actions: rows in insertion order
    nextResponseId,         \* next fresh response id the provider hands out
    inflight,               \* the requests being served, each with where it is: a bag
    started,                \* number of requests started so far
    failed,                 \* the turn submission that failed last and was not resubmitted to
    pipelineEntries,        \* per action id: embedInput calls made for it
    stranded,               \* the action ids for which an embedInput call has failed
    turnFailures,           \* per session id: turns that failed at the answerMessage call
    overlapped,             \* per action id: two confirm requests were in flight together
    carts,                  \* table carts: rows in insertion order
    cart_items,             \* table cart_items: rows in insertion order
    activeDefault           \* the DEFAULT of the column carts.active

vars == <<provider, chat_sessions, chat_messages, chat_messages_actions,
          nextResponseId, inflight, started, failed, pipelineEntries, stranded,
          turnFailures, overlapped, carts, cart_items, activeDefault>>

db == <<chat_sessions, chat_messages, chat_messages_actions>>

cartState == <<carts, cart_items, activeDefault>>

(* Timestamps.  The code orders rows by created_at only within chat_messages and *)
(* tests confirmed_at only against NULL, so a timestamp is the rank of the write  *)
(* among the writes of its kind: the n-th row of a table is created at n, and the *)
(* n-th UPDATE of an action's confirmed_at writes n.                              *)

(* ------------------------------ requests ------------------------------ *)

NoResponse == [kind |-> "none"]

\* no turn submission has failed since the last submission to its session
NoFailure == [kind |-> "none"]

\* the submission is not the resubmission of a failed one
NoRetry == [kind |-> "none"]

\* a request as it arrives
NewRequest == [op |-> "none", pc |-> "start", sessionId |-> 0, actionId |-> 0, content |-> "",
               handle |-> NULL, rows |-> <<>>, userMessage |-> NULL,
               llmResponse |-> NoResponse, llmMessage |-> NULL, embeddings |-> NoResponse,
               status |-> "", value |-> <<>>, at |-> "", writes |-> <<>>,
               providerCalls |-> <<>>, raw |-> "",
               sessionExisted |-> FALSE, afterConfirmed |-> FALSE, seen |-> "",
               repliesSeen |-> 0, retry |-> [kind |-> "none"],
               body |-> [type |-> "undefined", text |-> ""],
               passed |-> <<>>, candidates |-> {}, afterStranded |-> FALSE,
               event |-> "", batch |-> [kind |-> "none", lines |-> <<>>]]

\* the request ends at the statement it is at, with an HTTP outcome and a body
Done(c, status, value) ==
    [c EXCEPT !.pc = "done", !.at = c.pc, !.status = status, !.value = value]

Write(c, table, kind, id) ==
    [c EXCEPT !.writes = Append(@, [table |-> table, kind |-> kind, id |-> id])]

Provider(c, method) == [c EXCEPT !.providerCalls = Append(@, method)]

\* the requests being served
Requests == BagToSet(inflight)

\* request c has moved on and is now d
Replace(c, d) == (inflight (-) SetToBag({c})) (+) SetToBag({d})

\* a handler has returned or thrown and its response is being sent: this happens in
\* the event-loop turn that ran the handler's last statement, before the
\* continuation of any other request
Answering == \E c \in Requests : c.pc = "done"

\* the service can take the next request
Accepts ==
    /\ ~Answering
    /\ BagCardinality(inflight) < MaxProcs
    /\ started < MaxCalls

\* request c is being served and about to run the statement pc of the handler op
At(c, op, pc) == ~Answering /\ c \in Requests /\ c.op = op /\ c.pc = pc

(* ------------------------------ provider ------------------------------ *)

\* the object answerMessageSchema accepts for a raw answer of the given type
ParsedAnswer(type, message) ==
    IF type = "suggest_carts"
    THEN [message |-> "confirma?", action |-> [type |-> "suggest_carts", payload |-> [input |-> message]]]
    ELSE [message |-> "ok", action |-> [type |-> "send_message"]]

\* OpenAiLlmService.answerMessage: the whole body is inside try/catch
OpenAiAnswerMessage(message, previousMessageId, raw, responseId) ==
    IF raw \in {"api_error", "unparseable", "schema_invalid"}
    THEN [kind |-> "null"]
    ELSE [kind |-> "value", message |-> ParsedAnswer(raw, message).message,
          action |-> ParsedAnswer(raw, message).action, responseId |-> responseId]

\* GeminiLlmService.answerMessage: previousMessages.map and generateContent run
\* before the try block, JSON.parse and safeParse run inside it
GeminiAnswerMessage(message, previousMessageId, previousMessages, raw, responseId) ==
    IF previousMessages = Undefined THEN [kind |-> "throw"]
    ELSE IF raw = "api_error" THEN [kind |-> "throw"]
    ELSE IF raw \in {"unparseable", "schema_invalid"} THEN [kind |-> "null"]
    ELSE [kind |-> "value", message |-> ParsedAnswer(raw, message).message,
          action |-> ParsedAnswer(raw, message).action, responseId |-> responseId]

\* llmService.answerMessage(content, handle) as ChatService calls it: two arguments
answerMessage(prov, message, previousMessageId, raw, responseId) ==
    IF prov = "openai"
    THEN OpenAiAnswerMessage(message, previousMessageId, raw, responseId)
    ELSE GeminiAnswerMessage(message, previousMessageId, Undefined, raw, responseId)

\* the arguments of the call at line 97:
\* this.llmService.answerMessage(content, chatMessages.rows[0]?.openai_message_id || null)
AnswerMessageArguments(c) == <<c.content, c.handle>>

\* the product ids a provider can name: those of the catalog and one of no catalog
NamedProductIds == {p.id : p \in Products} \cup {99}

\* the answers of a provider to suggestCarts: a failure of the API call, a text that
\* is not JSON, JSON that fails suggestCartsSchema, or a cart list that passes it
\* (here one cart of one store with one or two products)
RawCarts ==
    {[kind |-> k, carts |-> {}] : k \in {"api_error", "unparseable", "schema_invalid"}}
    \cup {[kind |-> "carts", carts |-> {[store_id |-> s, products |-> P]}] :
              s \in {p.store_id : p \in Products},
              P \in {Q \in SUBSET NamedProductIds : Cardinality(Q) \in {1, 2}}}

\* OpenAiLlmService.suggestCarts: the whole body is in try/catch; a response without
\* output_parsed gives null, otherwise the parsed output is returned as it is
OpenAiSuggestCarts(relevantProductsByStore, input, raw, responseId) ==
    IF raw.kind = "api_error" THEN [kind |-> "null", carts |-> {}]
    ELSE IF raw.kind \in {"unparseable", "schema_invalid"} THEN [kind |-> "null", carts |-> {}]
    ELSE [kind |-> "value", carts |-> raw.carts, responseId |-> responseId]

\* GeminiLlmService.suggestCarts: generateContent is outside the try; JSON.parse and
\* suggestCartsSchema.safeParse decide alone, and validated.data is returned as it is
GeminiSuggestCarts(relevantProductsByStore, input, raw, responseId) ==
    IF raw.kind = "api_error" THEN [kind |-> "throw", carts |-> {}]
    ELSE IF raw.kind = "unparseable" THEN [kind |-> "null", carts |-> {}]
    ELSE IF raw.kind = "schema_invalid" THEN [kind |-> "null", carts |-> {}]
    ELSE [kind |-> "value", carts |-> raw.carts, responseId |-> responseId]

suggestCarts(prov, relevantProductsByStore, input, raw, responseId) ==
    IF prov = "openai"
    THEN OpenAiSuggestCarts(relevantProductsByStore, input, raw, responseId)
    ELSE GeminiSuggestCarts(relevantProductsByStore, input, raw, responseId)

\* what reaches POST of the webhook: a request whose signature webhooks.unwrap
\* rejects, or a verified event of type batch.completed or of another type
Events == {"invalid_signature", "batch.completed", "batch.failed"}

\* the lines of a batch output file: the embedding of product 1 or 2, a line whose
\* response holds no data, and a line that is no JSON
Lines == {"p1", "p2", "no_data", "malformed"}

\* what batches.retrieve gives for the batch of an event: nothing, a batch without
\* output_file_id, or a batch whose output file holds up to three lines
Batches ==
    {[kind |-> k, lines |-> <<>>] : k \in {"missing", "no_output"}}
    \cup {[kind |-> "output", lines |-> l] :
              l \in UNION {[1..n -> Lines] : n \in 0..3}}

\* OpenAiLlmService.handleWebhookEvent: no try/catch; null for another event type
\* and for a batch without output file, else the lines that hold data
OpenAiHandleWebhookEvent(event, batch) ==
    IF event = "invalid_signature" THEN [kind |-> "throw", results |-> <<>>]
    ELSE IF event # "batch.completed" THEN [kind |-> "null", results |-> <<>>]
    ELSE IF batch.kind \in {"missing", "no_output"} THEN [kind |-> "null", results |-> <<>>]
    ELSE IF \E i \in 1..Len(batch.lines) : batch.lines[i] = "malformed"
         THEN [kind |-> "throw", results |-> <<>>]
    ELSE [kind |-> "value",
          results |-> SelectSeq(batch.lines, LAMBDA l : l # "no_data")]

\* GeminiLlmService.handleWebhookEvent: throw new Error("Method not implemented.")
GeminiHandleWebhookEvent(event, batch) == [kind |-> "throw", results |-> <<>>]

handleWebhookEvent(prov, event, batch) ==
    IF prov = "openai"
    THEN OpenAiHandleWebhookEvent(event, batch)
    ELSE GeminiHandleWebhookEvent(event, batch)

\* embedInput of both variants: every failure is caught and becomes null
embedInput(prov, input, raw) ==
    IF raw = "api_error" THEN [kind |-> "null"] ELSE [kind |-> "value", embedding |-> raw]

(* ------------------------------ queries ------------------------------- *)

\* a row of chat_sessions has this id
SessionExists(sessionId) == \E s \in chat_sessions : s.id = sessionId

\* the session lookup without its WHERE clause
SelectSession_anySession(sessionId) == chat_sessions

\* confirmAction: SELECT * FROM chat_sessions WHERE id = $1
SelectSession(sessionId) == {s \in chat_sessions : s.id = sessionId}

\* the handle lookup without the sender filter
LastAssistantHandle_anySender(sessionId) ==
    LET InSession(m) == m.chat_session_id = sessionId
        rows == SelectSeq(chat_messages, InSession)
    IN  IF rows = <<>> THEN NULL
        ELSE (CHOOSE m \in {rows[i] : i \in 1..Len(rows)} :
                 \A i \in 1..Len(rows) : rows[i].created_at <= m.created_at).openai_message_id

\* the handle lookup without the session filter
LastAssistantHandle_anySession(sessionId) ==
    LET IsAssistant(m) == m.sender = "assistant"
        rows == SelectSeq(chat_messages, IsAssistant)
    IN  IF rows = <<>> THEN NULL
        ELSE (CHOOSE m \in {rows[i] : i \in 1..Len(rows)} :
                 \A i \in 1..Len(rows) : rows[i].created_at <= m.created_at).openai_message_id

\* SELECT openai_message_id FROM chat_messages WHERE chat_session_id = $1
\*   AND sender = 'assistant' ORDER BY created_at DESC LIMIT 1
LastAssistantHandle(sessionId) ==
    LET IsAssistant(m) == m.chat_session_id = sessionId /\ m.sender = "assistant"
        rows == SelectSeq(chat_messages, IsAssistant)
    IN  IF rows = <<>> THEN NULL
        ELSE (CHOOSE m \in {rows[i] : i \in 1..Len(rows)} :
                 \A i \in 1..Len(rows) : rows[i].created_at <= m.created_at).openai_message_id

\* the action lookup without the confirmed_at filter and without that column
FindConfirmable_noFilter(actionId) ==
    LET Match(a) == a.id = actionId
        rows == SelectSeq(chat_messages_actions, Match)
    IN  [i \in 1..Len(rows) |-> [rows[i] EXCEPT !.confirmed_at = NULL]]

\* SELECT * FROM chat_messages_actions WHERE id = $1 AND confirmed_at IS NULL
FindConfirmable(actionId) ==
    LET Match(a) == a.id = actionId /\ a.confirmed_at = NULL
    IN  SelectSeq(chat_messages_actions, Match)

\* the retrieval with a threshold that includes the boundary
RelevantProductsGroupedByStore_inclusive(embedding) ==
    LET near == {p \in Products : p.dist[embedding] <= Threshold}
    IN  { [store_id |-> s,
           products |-> { [id |-> p.id, name |-> p.name, price |-> p.price,
                           similary |-> p.dist[embedding]] : p \in {q \in near : q.store_id = s} }]
          : s \in {p.store_id : p \in near} }

\* SELECT store_id, JSON_AGG(...) FROM products p WHERE p.embedding <=> $1 < 0.65 GROUP BY store_id
RelevantProductsGroupedByStore(embedding) ==
    LET near == {p \in Products : p.dist[embedding] < Threshold}
    IN  { [store_id |-> s,
           products |-> { [id |-> p.id, name |-> p.name, price |-> p.price,
                           similary |-> p.dist[embedding]] : p \in {q \in near : q.store_id = s} }]
          : s \in {p.store_id : p \in near} }

\* the rows of chat_messages of one session, in the order they were appended
MessagesOf(sessionId) ==
    LET InSession(m) == m.chat_session_id = sessionId
    IN  SelectSeq(chat_messages, InSession)

\* the orders in which the join hands n rows to JSON_AGG: the query has no ORDER BY,
\* so no order is excluded; the model takes the append order and every order that
\* exchanges two rows of it, which for two rows is every order
RowOrders(n) ==
    {[i \in 1..n |-> i]}
    \cup {[i \in 1..n |-> IF i = a THEN b ELSE IF i = b THEN a ELSE i] :
              a \in 1..n, b \in 1..n}

\* the JSON null that CASE ... ELSE NULL END puts in the place of an action object
NullAction == [null |-> TRUE]

\* the query of getChatSession with the actions joined on their own id
SessionWithMessages_joinOnActionId(sessionId, order) ==
    LET s == CHOOSE x \in chat_sessions : x.id = sessionId
        rows == MessagesOf(sessionId)
        ActionOf(m) ==
            LET as == {chat_messages_actions[i] : i \in 1..Len(chat_messages_actions)}
                mine == {a \in as : a.id = m.id}
            IN  IF mine = {} THEN NullAction ELSE CHOOSE a \in mine : TRUE
        Object(m) == [id |-> m.id, content |-> m.content, sender |-> m.sender,
                      openai_message_id |-> m.openai_message_id,
                      created_at |-> m.created_at, message_type |-> m.message_type,
                      action |-> ActionOf(m)]
    IN  [id |-> s.id, created_at |-> s.created_at, user_id |-> s.user_id,
         messages |-> IF rows = <<>> THEN NULL
                      ELSE [i \in 1..Len(rows) |-> Object(rows[order[i]])]]

\* the row the query of getChatSession returns for one session, the joined rows
\* reaching JSON_AGG in the given order; the FILTER makes messages NULL when the
\* session has no message. A message has at most one action: addUserMessage inserts
\* one action type only, once per message.
SessionWithMessages(sessionId, order) ==
    LET s == CHOOSE x \in chat_sessions : x.id = sessionId
        rows == MessagesOf(sessionId)
        ActionOf(m) ==
            LET as == {chat_messages_actions[i] : i \in 1..Len(chat_messages_actions)}
                mine == {a \in as : a.chat_message_id = m.id}
            IN  IF mine = {} THEN NullAction ELSE CHOOSE a \in mine : TRUE
        Object(m) == [id |-> m.id, content |-> m.content, sender |-> m.sender,
                      openai_message_id |-> m.openai_message_id,
                      created_at |-> m.created_at, message_type |-> m.message_type,
                      action |-> ActionOf(m)]
    IN  [id |-> s.id, created_at |-> s.created_at, user_id |-> s.user_id,
         messages |-> IF rows = <<>> THEN NULL
                      ELSE [i \in 1..Len(rows) |-> Object(rows[order[i]])]]

\* the row INSERT INTO chat_messages ... RETURNING * produces
NewMessage(sessionId, content, sender, openaiMessageId, messageType) ==
    [id |-> Len(chat_messages) + 1, chat_session_id |-> sessionId, content |-> content,
     sender |-> sender, openai_message_id |-> openaiMessageId,
     message_type |-> messageType, created_at |-> Len(chat_messages) + 1]

\* what the table holds for an action id: no row, an unconfirmed row, a confirmed row
ActionState(actionId) ==
    IF \A i \in 1..Len(chat_messages_actions) : chat_messages_actions[i].id # actionId
    THEN "absent"
    ELSE IF \E i \in 1..Len(chat_messages_actions) :
                /\ chat_messages_actions[i].id = actionId
                /\ chat_messages_actions[i].confirmed_at = NULL
         THEN "unconfirmed" ELSE "confirmed"

\* executions of the UPDATE of confirmed_at for an action id
confirmWrites(actionId) ==
    IF ActionState(actionId) = "absent" THEN 0
    ELSE (CHOOSE a \in {chat_messages_actions[i] : i \in 1..Len(chat_messages_actions)} :
             a.id = actionId).confirmed_at

\* assistant messages stored for a session
Replies(sessionId) ==
    Cardinality({i \in 1..Len(chat_messages) :
                    /\ chat_messages[i].chat_session_id = sessionId
                    /\ chat_messages[i].sender = "assistant"})

\* turns of a session that have completed: their reply is stored and the handler is
\* past its last statement
TurnsCompleted(sessionId) ==
    Replies(sessionId) - Cardinality({c \in Requests : /\ c.op = "addUserMessage"
                                                       /\ c.sessionId = sessionId
                                                       /\ c.pc = "insertAction"})

\* what is remembered of a turn submission c that fails at the provider call
Failure(c) ==
    [kind |-> "failed", sessionId |-> c.sessionId, content |-> c.content,
     handle |-> c.handle, repliesSeen |-> c.repliesSeen,
     turnsCompleted |-> TurnsCompleted(c.sessionId)]

\* a submission of the text of the failed submission to the same session: the handle
\* the failed attempt received, whether no turn of the session has completed since
\* the failure, and whether no reply was stored since the failed attempt was submitted
RetryOf(sessionId, content) ==
    IF failed.kind = "failed" /\ failed.sessionId = sessionId /\ failed.content = content
    THEN [kind |-> "retry", handle |-> failed.handle,
          noTurnCompleted |-> TurnsCompleted(sessionId) = failed.turnsCompleted,
          noReplyStored |-> Replies(sessionId) = failed.repliesSeen]
    ELSE NoRetry

\* the session ids requests name: the stored ones and the next, still missing, one
RequestSessionIds == {s \in SessionIds : s <= Cardinality(chat_sessions) + 1}

\* the action ids requests name: the stored ones and the next, still missing, one
RequestActionIds == {a \in ActionIds : a <= Len(chat_messages_actions) + 1}

\* a confirm request for the action id is between its start and its response
ConfirmInFlight(actionId) ==
    \E c \in Requests : c.op = "confirmAction" /\ c.actionId = actionId

Init ==
    /\ provider \in Providers
    /\ chat_sessions = {}
    /\ chat_messages = <<>>
    /\ chat_messages_actions = <<>>
    /\ nextResponseId = 1
    /\ inflight = EmptyBag
    /\ started = 0
    /\ failed = NoFailure
    /\ pipelineEntries = [a \in ActionIds |-> 0]
    /\ stranded = {}
    /\ turnFailures = [s \in SessionIds |-> 0]
    /\ overlapped = [a \in ActionIds |-> FALSE]
    /\ carts = <<>>
    /\ cart_items = <<>>
    /\ activeDefault = TRUE

(* ---------------------- ChatService.createChatSession ----------------- *)

\* POST /chat: INSERT INTO chat_sessions (user_id) VALUES ($1) RETURNING *
createChatSession ==
    /\ Accepts
    /\ LET c == [NewRequest EXCEPT !.op = "createChatSession", !.pc = "insertSession"]
           s == [id |-> Cardinality(chat_sessions) + 1, user_id |-> userId,
                 created_at |-> Cardinality(chat_sessions) + 1]
       IN  /\ chat_sessions' = chat_sessions \cup {s}
           /\ inflight' = inflight (+)
                SetToBag({Done(Write(c, "chat_sessions", "INSERT", s.id), "ok", s)})
    /\ started' = started + 1
    /\ UNCHANGED <<provider, chat_messages, chat_messages_actions, nextResponseId,
                   failed, pipelineEntries, stranded, turnFailures, overlapped, cartState>>

(* ------------------------ ChatService.getChatSession ------------------ *)

\* GET /chat/:sessionId: one query, the session joined with its messages and their
\* actions; no row is NotFound in the controller
getChatSession(sessionId) ==
    /\ Accepts
    /\ LET c == [NewRequest EXCEPT !.op = "getChatSession", !.pc = "select",
                                    !.sessionId = sessionId]
       IN  \E order \in RowOrders(Len(MessagesOf(sessionId))) :
             inflight' = inflight (+) SetToBag({
                IF ~SessionExists(sessionId)
                THEN Done(c, "NotFound", <<>>)
                ELSE Done(c, "ok", SessionWithMessages(sessionId, order)) })
    /\ started' = started + 1
    /\ UNCHANGED <<provider, db, nextResponseId, failed, pipelineEntries, stranded, turnFailures, overlapped, cartState>>

(* ----------------------- ChatService.addUserMessage ------------------- *)

\* !content in JavaScript: undefined, the empty string and the number 0 are falsy
Falsy(content) ==
    \/ content.type = "undefined"
    \/ content.type = "string" /\ content.text = ""
    \/ content.type = "number" /\ content.text = "0"

\* the validation without its typeof test
InvalidContent_noTypeCheck(content) == Falsy(content)

\* if(!content || typeof content !== 'string') throw new BadRequestException(...)
InvalidContent(content) == Falsy(content) \/ content.type # "string"

\* POST /chat/:sessionId/messages: the controller's validation, then the first
\* statement of addUserMessage, the SELECT of the last assistant handle.
\* Only existing sessions are submitted to: the effect of the INSERT on a missing
\* session depends on the table definition, which is not part of the sources.
addUserMessage(sessionId, content) ==
    /\ Accepts
    /\ SessionExists(sessionId)
    /\ LET c == [NewRequest EXCEPT !.op = "addUserMessage", !.pc = "validate",
                                    !.sessionId = sessionId, !.body = content]
       IN  /\ inflight' = inflight (+) SetToBag({
                IF InvalidContent(content)
                THEN Done(c, "BadRequest", <<>>)
                ELSE [c EXCEPT !.pc = "insertUser", !.content = content.text,
                               !.handle = LastAssistantHandle(sessionId),
                               !.repliesSeen = Replies(sessionId),
                               !.retry = RetryOf(sessionId, content.text)] })
           /\ failed' = IF /\ ~InvalidContent(content)
                            /\ failed.kind = "failed" /\ failed.sessionId = sessionId
                         THEN NoFailure ELSE failed
    /\ started' = started + 1
    /\ UNCHANGED <<provider, db, nextResponseId, pipelineEntries, stranded, turnFailures, overlapped, cartState>>

\* the user message stored with the handle the turn has read
InsertUserMessage_withHandle(c) ==
    /\ At(c, "addUserMessage", "insertUser")
    /\ LET m == NewMessage(c.sessionId, c.content, "user", c.handle, "text")
       IN  /\ chat_messages' = Append(chat_messages, m)
           /\ inflight' = Replace(c,
                [Write(c, "chat_messages", "INSERT", m.id) EXCEPT !.pc = "answer", !.userMessage = m.id])
    /\ UNCHANGED <<provider, chat_sessions, chat_messages_actions, nextResponseId,
                   started, failed, pipelineEntries, stranded, turnFailures, overlapped, cartState>>

\* const userMessage = await this.addMessageToSession(sessionId, content, 'user')
InsertUserMessage(c) ==
    /\ At(c, "addUserMessage", "insertUser")
    /\ LET m == NewMessage(c.sessionId, c.content, "user", NULL, "text")
       IN  /\ chat_messages' = Append(chat_messages, m)
           /\ inflight' = Replace(c,
                [Write(c, "chat_messages", "INSERT", m.id) EXCEPT !.pc = "answer", !.userMessage = m.id])
    /\ UNCHANGED <<provider, chat_sessions, chat_messages_actions, nextResponseId,
                   started, failed, pipelineEntries, stranded, turnFailures, overlapped, cartState>>

\* a turn that records the provider failure as an assistant message before failing
AnswerMessage_persistsFailure(c, raw) ==
    /\ At(c, "addUserMessage", "answer")
    /\ LET d == [Provider(c, "answerMessage") EXCEPT !.raw = raw,
                                                    !.passed = AnswerMessageArguments(c)]
           r == answerMessage(provider, c.content, c.handle, raw, nextResponseId)
           m == NewMessage(c.sessionId, "", "assistant", NULL, "text")
       IN  /\ inflight' = Replace(c,
                IF r.kind = "throw"
                THEN Done(Write(d, "chat_messages", "INSERT", m.id), "InternalServerError", <<>>)
                ELSE IF r.kind = "null"
                THEN Done(Write(d, "chat_messages", "INSERT", m.id), "BadGateway", <<>>)
                ELSE [d EXCEPT !.pc = "insertAssistant", !.llmResponse = r])
           /\ chat_messages' = IF r.kind = "value" THEN chat_messages ELSE Append(chat_messages, m)
           /\ nextResponseId' = IF r.kind = "value" THEN nextResponseId + 1 ELSE nextResponseId
           /\ failed' = IF r.kind = "value" THEN failed ELSE Failure(c)
           /\ turnFailures' = IF r.kind = "value" THEN turnFailures
                               ELSE [turnFailures EXCEPT ![c.sessionId] = @ + 1]
    /\ UNCHANGED <<provider, chat_sessions, chat_messages_actions, started,
                   pipelineEntries, stranded, overlapped, cartState>>

\* const llmResponse = await this.llmService.answerMessage(content, handle);
\* if(!llmResponse) throw new BadGatewayException(...)
\* An exception thrown by answerMessage itself leaves addUserMessage as it is and
\* reaches the client as the framework's 500.
AnswerMessage(c, raw) ==
    /\ At(c, "addUserMessage", "answer")
    /\ LET d == [Provider(c, "answerMessage") EXCEPT !.raw = raw,
                                                    !.passed = AnswerMessageArguments(c)]
           r == answerMessage(provider, c.content, c.handle, raw, nextResponseId)
       IN  /\ inflight' = Replace(c,
                IF r.kind = "throw" THEN Done(d, "InternalServerError", <<>>)
                ELSE IF r.kind = "null" THEN Done(d, "BadGateway", <<>>)
                ELSE [d EXCEPT !.pc = "insertAssistant", !.llmResponse = r])
           /\ nextResponseId' = IF r.kind = "value" THEN nextResponseId + 1 ELSE nextResponseId
           /\ failed' = IF r.kind = "value" THEN failed ELSE Failure(c)
           /\ turnFailures' = IF r.kind = "value" THEN turnFailures
                               ELSE [turnFailures EXCEPT ![c.sessionId] = @ + 1]
    /\ UNCHANGED <<provider, db, started, pipelineEntries, stranded, overlapped, cartState>>

\* a turn that returns the assistant message it stored
ReturnedMessage_reply(c, rows) == rows[c.llmMessage]

\* return userMessage: the row the INSERT of the user message returned, which no
\* statement changes afterwards
ReturnedMessage(c, rows) == rows[c.userMessage]

\* the reply stored with the sender of the user message
InsertAssistantMessage_asUser(c) ==
    /\ At(c, "addUserMessage", "insertAssistant")
    /\ LET m == NewMessage(c.sessionId, c.llmResponse.message, "user",
                           c.llmResponse.responseId, "text")
           w == [Write(c, "chat_messages", "INSERT", m.id) EXCEPT !.llmMessage = m.id]
       IN  /\ chat_messages' = Append(chat_messages, m)
           /\ inflight' = Replace(c,
                IF c.llmResponse.action.type = "suggest_carts"
                THEN [w EXCEPT !.pc = "insertAction"]
                ELSE Done(w, "ok", ReturnedMessage(w, chat_messages')))
    /\ UNCHANGED <<provider, chat_sessions, chat_messages_actions, nextResponseId,
                   started, failed, pipelineEntries, stranded, turnFailures, overlapped, cartState>>

\* const llmMessage = await this.addMessageToSession(sessionId, llmResponse.message,
\*     'assistant', llmResponse.responseId, 'text');
InsertAssistantMessage(c) ==
    /\ At(c, "addUserMessage", "insertAssistant")
    /\ LET m == NewMessage(c.sessionId, c.llmResponse.message, "assistant",
                           c.llmResponse.responseId, "text")
           w == [Write(c, "chat_messages", "INSERT", m.id) EXCEPT !.llmMessage = m.id]
       IN  /\ chat_messages' = Append(chat_messages, m)
           /\ inflight' = Replace(c,
                IF c.llmResponse.action.type = "suggest_carts"
                THEN [w EXCEPT !.pc = "insertAction"]
                ELSE Done(w, "ok", ReturnedMessage(w, chat_messages')))
    /\ UNCHANGED <<provider, chat_sessions, chat_messages_actions, nextResponseId,
                   started, failed, pipelineEntries, stranded, turnFailures, overlapped, cartState>>

\* the INSERT of an action without its ON CONFLICT clause
InsertActionRow_noConflictClause(rows, chat_message_id, action_type, payload) ==
    Append(rows, [id |-> Len(rows) + 1, chat_message_id |-> chat_message_id,
                  action_type |-> action_type, payload |-> payload,
                  created_at |-> Len(rows) + 1,
                  confirmed_at |-> NULL, executed_at |-> NULL])

\* INSERT INTO chat_messages_actions (chat_message_id, action_type, payload)
\*   VALUES ($1, $2, $3) ON CONFLICT (chat_message_id, action_type) DO NOTHING,
\* as a function of the rows of the table
InsertActionRow(rows, chat_message_id, action_type, payload) ==
    IF \E i \in 1..Len(rows) : /\ rows[i].chat_message_id = chat_message_id
                               /\ rows[i].action_type = action_type
    THEN rows
    ELSE Append(rows, [id |-> Len(rows) + 1, chat_message_id |-> chat_message_id,
                       action_type |-> action_type, payload |-> payload,
                       created_at |-> Len(rows) + 1,
                       confirmed_at |-> NULL, executed_at |-> NULL])

\* the INSERT of the action for the user message of the turn
InsertAction_onUserMessage(c) ==
    /\ At(c, "addUserMessage", "insertAction")
    /\ LET rows == InsertActionRow(chat_messages_actions, c.userMessage,
                                   c.llmResponse.action.type, c.llmResponse.action.payload)
           inserted == Len(rows) > Len(chat_messages_actions)
       IN  /\ chat_messages_actions' = rows
           /\ inflight' = Replace(c,
                Done(IF inserted
                     THEN Write(c, "chat_messages_actions", "INSERT", rows[Len(rows)].id)
                     ELSE c,
                     "ok", ReturnedMessage(c, chat_messages)))
    /\ UNCHANGED <<provider, chat_sessions, chat_messages, nextResponseId,
                   started, failed, pipelineEntries, stranded, turnFailures, overlapped, cartState>>

\* the INSERT of the action with a type the dispatch of confirmAction does not know
InsertAction_commitCart(c) ==
    /\ At(c, "addUserMessage", "insertAction")
    /\ LET rows == InsertActionRow(chat_messages_actions, c.llmMessage,
                                   "commit_cart", c.llmResponse.action.payload)
           inserted == Len(rows) > Len(chat_messages_actions)
       IN  /\ chat_messages_actions' = rows
           /\ inflight' = Replace(c,
                Done(IF inserted
                     THEN Write(c, "chat_messages_actions", "INSERT", rows[Len(rows)].id)
                     ELSE c,
                     "ok", ReturnedMessage(c, chat_messages)))
    /\ UNCHANGED <<provider, chat_sessions, chat_messages, nextResponseId,
                   started, failed, pipelineEntries, stranded, turnFailures, overlapped, cartState>>

\* the last statement of a turn whose reply proposes suggest_carts: the INSERT of the
\* action for the assistant message just stored
InsertAction(c) ==
    /\ At(c, "addUserMessage", "insertAction")
    /\ LET rows == InsertActionRow(chat_messages_actions, c.llmMessage,
                                   c.llmResponse.action.type, c.llmResponse.action.payload)
           inserted == Len(rows) > Len(chat_messages_actions)
       IN  /\ chat_messages_actions' = rows
           /\ inflight' = Replace(c,
                Done(IF inserted
                     THEN Write(c, "chat_messages_actions", "INSERT", rows[Len(rows)].id)
                     ELSE c,
                     "ok", ReturnedMessage(c, chat_messages)))
    /\ UNCHANGED <<provider, chat_sessions, chat_messages, nextResponseId,
                   started, failed, pipelineEntries, stranded, turnFailures, overlapped, cartState>>

(* ------------------------ ChatService.confirmAction ------------------- *)

\* POST /chat/:sessionId/actions/:actionId/confirm: SELECT * FROM chat_sessions
\* WHERE id = $1; no row is NotFound
confirmAction(sessionId, actionId) ==
    /\ Accepts
    /\ LET c == [NewRequest EXCEPT !.op = "confirmAction", !.pc = "selectSession",
                                    !.sessionId = sessionId, !.actionId = actionId,
                                    !.sessionExisted = SessionExists(sessionId),
                                    !.afterConfirmed = ActionState(actionId) = "confirmed"
                                                       /\ ~ConfirmInFlight(actionId),
                                    !.afterStranded = actionId \in stranded]
       IN  inflight' = inflight (+) SetToBag({
                IF SelectSession(sessionId) = {}
                THEN Done(c, "NotFound", <<>>)
                ELSE [c EXCEPT !.pc = "selectAction"] })
    /\ started' = started + 1
    /\ overlapped' = [overlapped EXCEPT ![actionId] = @ \/ ConfirmInFlight(actionId)]
    /\ UNCHANGED <<provider, db, nextResponseId, failed, pipelineEntries, stranded,
                   turnFailures, cartState>>

\* the session of the message an action row belongs to
SessionOfAction(r) == chat_messages[r.chat_message_id].chat_session_id

\* the lookup of the action restricted to the actions of the session of the request
SelectAction_ownSession(c) ==
    /\ At(c, "confirmAction", "selectAction")
    /\ LET d == [c EXCEPT !.seen = ActionState(c.actionId)]
           rows == SelectSeq(FindConfirmable(c.actionId),
                             LAMBDA r : SessionOfAction(r) = c.sessionId)
       IN  inflight' = Replace(c,
                IF Len(rows) = 0 THEN Done(d, "NotFound", <<>>)
                ELSE IF rows[1].confirmed_at # NULL THEN Done(d, "Conflict", <<>>)
                ELSE [d EXCEPT !.pc = "update", !.rows = rows])
    /\ UNCHANGED <<provider, db, nextResponseId, started, failed, pipelineEntries, stranded, turnFailures, overlapped, cartState>>

\* the SELECT of the action with confirmed_at IS NULL, then the two checks on its rows
SelectAction(c) ==
    /\ At(c, "confirmAction", "selectAction")
    /\ LET d == [c EXCEPT !.seen = ActionState(c.actionId)]
           rows == FindConfirmable(c.actionId)
       IN  inflight' = Replace(c,
                IF Len(rows) = 0 THEN Done(d, "NotFound", <<>>)
                ELSE IF rows[1].confirmed_at # NULL THEN Done(d, "Conflict", <<>>)
                ELSE [d EXCEPT !.pc = "update", !.rows = rows])
    /\ UNCHANGED <<provider, db, nextResponseId, started, failed, pipelineEntries, stranded, turnFailures, overlapped, cartState>>

\* the dispatch without the UPDATE that precedes it
UpdateConfirmed_noWrite(c) ==
    /\ At(c, "confirmAction", "update")
    /\ inflight' = Replace(c,
            IF c.rows[1].action_type = "suggest_carts"
            THEN [c EXCEPT !.pc = "embed"]
            ELSE Done(c, "InternalServerError", <<>>))
    /\ UNCHANGED <<provider, db, nextResponseId, started, failed, pipelineEntries, stranded, turnFailures, overlapped, cartState>>

\* the UPDATE followed by a dispatch that sends every action type to the pipeline
UpdateConfirmed_anyType(c) ==
    /\ At(c, "confirmAction", "update")
    /\ LET w == Write(c, "chat_messages_actions", "UPDATE", c.actionId)
       IN  /\ chat_messages_actions' =
                [i \in 1..Len(chat_messages_actions) |->
                    IF chat_messages_actions[i].id = c.actionId
                    THEN [chat_messages_actions[i] EXCEPT !.confirmed_at = @ + 1]
                    ELSE chat_messages_actions[i]]
           /\ inflight' = Replace(c, [w EXCEPT !.pc = "embed"])
    /\ UNCHANGED <<provider, chat_sessions, chat_messages, nextResponseId,
                   started, failed, pipelineEntries, stranded, turnFailures, overlapped, cartState>>

\* the UPDATE without its WHERE clause
UpdateConfirmed_everyAction(c) ==
    /\ At(c, "confirmAction", "update")
    /\ LET w == Write(c, "chat_messages_actions", "UPDATE", c.actionId)
       IN  /\ chat_messages_actions' =
                [i \in 1..Len(chat_messages_actions) |->
                    [chat_messages_actions[i] EXCEPT !.confirmed_at = @ + 1]]
           /\ inflight' = Replace(c,
                IF c.rows[1].action_type = "suggest_carts"
                THEN [w EXCEPT !.pc = "embed"]
                ELSE Done(w, "InternalServerError", <<>>))
    /\ UNCHANGED <<provider, chat_sessions, chat_messages, nextResponseId,
                   started, failed, pipelineEntries, stranded, turnFailures, overlapped, cartState>>

\* UPDATE chat_messages_actions SET confirmed_at = NOW() WHERE id = $1, then the
\* dispatch on the action type read by the SELECT
UpdateConfirmed(c) ==
    /\ At(c, "confirmAction", "update")
    /\ LET w == Write(c, "chat_messages_actions", "UPDATE", c.actionId)
       IN  /\ chat_messages_actions' =
                [i \in 1..Len(chat_messages_actions) |->
                    IF chat_messages_actions[i].id = c.actionId
                    THEN [chat_messages_actions[i] EXCEPT !.confirmed_at = @ + 1]
                    ELSE chat_messages_actions[i]]
           /\ inflight' = Replace(c,
                IF c.rows[1].action_type = "suggest_carts"
                THEN [w EXCEPT !.pc = "embed"]
                ELSE Done(w, "InternalServerError", <<>>))
    /\ UNCHANGED <<provider, chat_sessions, chat_messages, nextResponseId,
                   started, failed, pipelineEntries, stranded, turnFailures, overlapped, cartState>>

\* const embeddings = await this.llmService.embedInput(payload.input);
\* if (!embeddings) throw new BadGatewayException(...)
EmbedInput(c, raw) ==
    /\ At(c, "confirmAction", "embed")
    /\ LET d == Provider(c, "embedInput")
           e == embedInput(provider, c.rows[1].payload.input, raw)
       IN  inflight' = Replace(c,
                IF e.kind = "null" THEN Done(d, "BadGateway", <<>>)
                ELSE [d EXCEPT !.pc = "retrieve", !.embeddings = e])
    /\ pipelineEntries' = [pipelineEntries EXCEPT ![c.actionId] = @ + 1]
    /\ stranded' = IF embedInput(provider, c.rows[1].payload.input, raw).kind = "null"
                   THEN stranded \cup {c.actionId} ELSE stranded
    /\ UNCHANGED <<provider, db, nextResponseId, started, failed, turnFailures, overlapped, cartState>>

\* the similarity query; its result is what confirmAction returns. The operator <=>
\* of the database raises an error for two vectors of different dimensionality, and
\* the rejected query leaves confirmAction as an exception that is no HttpException
Retrieve(c) ==
    /\ At(c, "confirmAction", "retrieve")
    /\ inflight' = Replace(c,
            IF Dimension(c.embeddings.embedding) # EmbeddingDimension
            THEN Done(c, "InternalServerError", <<>>)
            ELSE Done(c, "ok", RelevantProductsGroupedByStore(c.embeddings.embedding)))
    /\ UNCHANGED <<provider, db, nextResponseId, started, failed, pipelineEntries, stranded, turnFailures, overlapped, cartState>>

\* the response of a finished request is sent
Return(c) ==
    /\ c \in Requests /\ c.pc = "done"
    /\ inflight' = inflight (-) SetToBag({c})
    /\ UNCHANGED <<provider, db, nextResponseId, started, failed, pipelineEntries, stranded, turnFailures, overlapped, cartState>>

Next ==
    \/ createChatSession
    \/ \E s \in RequestSessionIds : getChatSession(s)
    \/ \E s \in RequestSessionIds, t \in Contents : addUserMessage(s, t)
    \/ \E c \in Requests : InsertUserMessage(c)
    \/ \E c \in Requests, raw \in RawAnswers : AnswerMessage(c, raw)
    \/ \E c \in Requests : InsertAssistantMessage(c)
    \/ \E c \in Requests : InsertAction(c)
    \/ \E s \in RequestSessionIds, a \in RequestActionIds : confirmAction(s, a)
    \/ \E c \in Requests : SelectAction(c)
    \/ \E c \in Requests : UpdateConfirmed(c)
    \/ \E c \in Requests, raw \in RawEmbeddings : EmbedInput(c, raw)
    \/ \E c \in Requests : Retrieve(c)
    \/ \E c \in Requests : Return(c)

Spec == Init /\ [][Next]_vars

\* suggestCarts(relevantProductsByStore, input) of the injected variant, called with
\* the candidates a retrieval gives and answered by the provider with raw
SuggestCarts(embedding, raw) ==
    /\ inflight = EmptyBag
    /\ LET candidates == RelevantProductsGroupedByStore(embedding)
           r == suggestCarts(provider, candidates, "bolo", raw, nextResponseId)
           c == [NewRequest EXCEPT !.op = "suggestCarts", !.pc = "suggestCarts",
                                   !.content = "bolo", !.candidates = candidates,
                                   !.llmResponse = raw]
       IN  inflight' = SetToBag({Done(Provider(c, "suggestCarts"), r.kind, r.carts)})
    /\ UNCHANGED <<provider, db, nextResponseId, started, failed, pipelineEntries, stranded, turnFailures, overlapped, cartState>>

SuggestNext ==
    \/ \E e \in Vectors, raw \in RawCarts : SuggestCarts(e, raw)
    \/ \E c \in Requests : Return(c)

\* the cart assembly of the provider variants on its own: no request of ChatService
\* calls it
SuggestSpec == Init /\ [][SuggestNext]_vars

\* the values of the column action_type: the one addUserMessage inserts, and one
\* that confirmAction does not dispatch on (the column is a string)
ActionTypes == {"suggest_carts", "commit_cart"}

\* a database that holds one session, one turn of it, and the unconfirmed action of
\* its reply, of either type
StoredInit ==
    /\ provider \in Providers
    /\ chat_sessions = {[id |-> 1, user_id |-> userId, created_at |-> 1]}
    /\ chat_messages =
            <<[id |-> 1, chat_session_id |-> 1, content |-> "bolo", sender |-> "user",
               openai_message_id |-> NULL, message_type |-> "text", created_at |-> 1],
              [id |-> 2, chat_session_id |-> 1, content |-> "confirma?",
               sender |-> "assistant", openai_message_id |-> 1,
               message_type |-> "text", created_at |-> 2]>>
    /\ \E t \in ActionTypes :
            chat_messages_actions =
                <<[id |-> 1, chat_message_id |-> 2, action_type |-> t,
                   payload |-> [input |-> "bolo"], created_at |-> 1,
                   confirmed_at |-> NULL, executed_at |-> NULL]>>
    /\ nextResponseId = 2
    /\ inflight = EmptyBag
    /\ started = 0
    /\ failed = NoFailure
    /\ pipelineEntries = [a \in ActionIds |-> 0]
    /\ stranded = {}
    /\ turnFailures = [s \in SessionIds |-> 0]
    /\ overlapped = [a \in ActionIds |-> FALSE]
    /\ carts = <<>>
    /\ cart_items = <<>>
    /\ activeDefault = TRUE

StoredNext ==
    \/ \E s \in RequestSessionIds, a \in RequestActionIds : confirmAction(s, a)
    \/ \E c \in Requests : SelectAction(c)
    \/ \E c \in Requests : UpdateConfirmed(c)
    \/ \E c \in Requests, raw \in RawEmbeddings : EmbedInput(c, raw)
    \/ \E c \in Requests : Retrieve(c)
    \/ \E c \in Requests : Return(c)

\* confirmAction on a stored action, whatever the type its row holds
StoredSpec == StoredInit /\ [][StoredNext]_vars

\* handleWebhookEvent(rawBody, headers) of the injected variant, for an event and the
\* batch the provider holds for it
HandleWebhookEvent(event, batch) ==
    /\ inflight = EmptyBag
    /\ LET r == handleWebhookEvent(provider, event, batch)
           c == [NewRequest EXCEPT !.op = "handleWebhookEvent",
                                   !.pc = "handleWebhookEvent",
                                   !.event = event, !.batch = batch]
       IN  inflight' = SetToBag({Done(c, r.kind, r.results)})
    /\ UNCHANGED <<provider, db, nextResponseId, started, failed, pipelineEntries, stranded, turnFailures, overlapped, cartState>>

WebhookNext ==
    \/ \E event \in Events, batch \in Batches : HandleWebhookEvent(event, batch)
    \/ \E c \in Requests : Return(c)

\* the batch ingestion of the provider variants on its own
WebhookSpec == Init /\ [][WebhookNext]_vars

(* --------------------------- CartService.addCart ---------------------- *)

\* the user id CartController.addtoCart passes to addCart
cartUserId == 1

\* values of productId in the body of POST /cart: missing, three products of the
\* catalog (two of store 1, one of store 2) and an id of no product
BodyProductIds == {0, 1, 2, 3, 99}

\* values of quantity in the body of POST /cart: missing or zero, and two amounts
BodyQuantities == {0, 1, 2}

\* SELECT store_id FROM products WHERE id = $1
SelectProductRows(productId) ==
    IF \E p \in Products : p.id = productId
    THEN <<[store_id |-> (CHOOSE p \in Products : p.id = productId).store_id]>>
    ELSE <<>>

\* SELECT id, store_id FROM carts WHERE user_id = $1 AND active = true
ActiveCarts(user) ==
    SelectSeq(carts, LAMBDA r : r.user_id = user /\ r.active)

\* the INSERT of an item without its ON CONFLICT clause
UpsertItemRow_noConflictClause(rows, cart_id, product_id, quantity) ==
    Append(rows, [cart_id |-> cart_id, product_id |-> product_id, quantity |-> quantity])

\* INSERT INTO cart_items (cart_id, product_id, quantity) VALUES ($1, $2, $3)
\*   ON CONFLICT (cart_id, product_id) DO UPDATE
\*   SET QUANTITY = cart_items.quantity + EXCLUDED.quantity,
\* as a function of the rows of the table
UpsertItemRow(rows, cart_id, product_id, quantity) ==
    IF \E i \in 1..Len(rows) : rows[i].cart_id = cart_id /\ rows[i].product_id = product_id
    THEN [i \in 1..Len(rows) |->
            IF rows[i].cart_id = cart_id /\ rows[i].product_id = product_id
            THEN [rows[i] EXCEPT !.quantity = @ + quantity]
            ELSE rows[i]]
    ELSE Append(rows, [cart_id |-> cart_id, product_id |-> product_id,
                       quantity |-> quantity])

\* a request POST /cart as it arrives
NewCartRequest == [op |-> "addCart", pc |-> "start", productId |-> 0, quantity |-> 0,
                   products |-> <<>>, existingCart |-> <<>>, cart |-> NULL,
                   itemsSeen |-> <<>>, status |-> "", value |-> <<>>, at |-> "",
                   writes |-> <<>>]

\* POST /cart: the controller rejects a body whose productId or quantity is falsy
\* and calls addCart(1, productId, quantity) otherwise
addCart(productId, quantity) ==
    /\ Accepts
    /\ LET c == [NewCartRequest EXCEPT !.pc = "validate",
                                       !.productId = productId, !.quantity = quantity]
           invalid == productId = 0 \/ quantity = 0
       IN  inflight' = inflight (+) SetToBag({
                IF invalid THEN Done(c, "BadRequest", <<>>)
                ELSE [c EXCEPT !.pc = "selectProduct"] })
    /\ started' = started + 1
    /\ UNCHANGED <<provider, db, nextResponseId, failed, pipelineEntries, stranded,
                   turnFailures, overlapped, carts, cart_items, activeDefault>>

\* const products = await ...query(`SELECT store_id FROM products WHERE id = $1`);
\* if(products.rows.length === 0) throw new NotFoundException("Product not found")
SelectProduct(c) ==
    /\ At(c, "addCart", "selectProduct")
    /\ LET rows == SelectProductRows(c.productId)
       IN  inflight' = Replace(c,
                IF Len(rows) = 0 THEN Done(c, "NotFound", <<>>)
                ELSE [c EXCEPT !.pc = "selectCart", !.products = rows])
    /\ UNCHANGED <<provider, db, nextResponseId, started, failed, pipelineEntries,
                   stranded, turnFailures, overlapped, cartState>>

\* the SELECT of the active carts of the user and the two tests on its first row.
\* The query has no ORDER BY: with several active carts any of them is rows[0].
SelectCart(c) ==
    /\ At(c, "addCart", "selectCart")
    /\ LET rows == ActiveCarts(cartUserId)
       IN  IF Len(rows) = 0
           THEN inflight' = Replace(c, [c EXCEPT !.pc = "insertCart"])
           ELSE \E i \in 1..Len(rows) :
                    inflight' = Replace(c,
                        [c EXCEPT !.existingCart = <<[id |-> rows[i].id,
                                                      store_id |-> rows[i].store_id]>>,
                                  !.pc = IF rows[i].store_id = c.products[1].store_id
                                         THEN "upsertItem" ELSE "deactivate"])
    /\ UNCHANGED <<provider, db, nextResponseId, started, failed, pipelineEntries,
                   stranded, turnFailures, overlapped, cartState>>

\* the active cart is of the product's store: the item is added to it and the id of
\* the cart is returned
UpsertItem(c) ==
    /\ At(c, "addCart", "upsertItem")
    /\ cart_items' = UpsertItemRow(cart_items, c.existingCart[1].id, c.productId, c.quantity)
    /\ inflight' = Replace(c,
            Done([Write(c, "cart_items", "UPSERT", c.existingCart[1].id)
                    EXCEPT !.itemsSeen = cart_items],
                 "ok", [id |-> c.existingCart[1].id]))
    /\ UNCHANGED <<provider, db, nextResponseId, started, failed, pipelineEntries,
                   stranded, turnFailures, overlapped, carts, activeDefault>>

\* the active cart that is kept active when a product of another store is added
Deactivate_noWrite(c) ==
    /\ At(c, "addCart", "deactivate")
    /\ inflight' = Replace(c, [c EXCEPT !.pc = "insertCart"])
    /\ UNCHANGED <<provider, db, nextResponseId, started, failed, pipelineEntries,
                   stranded, turnFailures, overlapped, cartState>>

\* the active cart is of another store:
\* UPDATE carts SET active = false WHERE id = $1
Deactivate(c) ==
    /\ At(c, "addCart", "deactivate")
    /\ carts' = [i \in 1..Len(carts) |->
                    IF carts[i].id = c.existingCart[1].id
                    THEN [carts[i] EXCEPT !.active = FALSE]
                    ELSE carts[i]]
    /\ inflight' = Replace(c,
            [Write(c, "carts", "UPDATE", c.existingCart[1].id) EXCEPT !.pc = "insertCart"])
    /\ UNCHANGED <<provider, db, nextResponseId, started, failed, pipelineEntries,
                   stranded, turnFailures, overlapped, cart_items, activeDefault>>

\* INSERT INTO carts (user_id, store_id) VALUES ($1, $2) RETURNING id; the column
\* active takes its default
InsertCart(c) ==
    /\ At(c, "addCart", "insertCart")
    /\ LET r == [id |-> Len(carts) + 1, user_id |-> cartUserId,
                 store_id |-> c.products[1].store_id, active |-> activeDefault,
                 created_at |-> Len(carts) + 1]
       IN  /\ carts' = Append(carts, r)
           /\ inflight' = Replace(c,
                [Write(c, "carts", "INSERT", r.id) EXCEPT !.pc = "insertItem", !.cart = r.id])
    /\ UNCHANGED <<provider, db, nextResponseId, started, failed, pipelineEntries,
                   stranded, turnFailures, overlapped, cart_items, activeDefault>>

\* INSERT INTO cart_items (cart_id, product_id, quantity) VALUES ($1, $2, $3) for the
\* new cart, and the id of the cart is returned. The statement has no ON CONFLICT
\* clause: a row of the same cart and product, which only a request served in
\* between can have stored, makes it fail on the unique index.
InsertItem(c) ==
    /\ At(c, "addCart", "insertItem")
    /\ LET conflict == \E i \in 1..Len(cart_items) :
                            /\ cart_items[i].cart_id = c.cart
                            /\ cart_items[i].product_id = c.productId
       IN  /\ cart_items' =
                IF conflict THEN cart_items
                ELSE Append(cart_items, [cart_id |-> c.cart, product_id |-> c.productId,
                                         quantity |-> c.quantity])
           /\ inflight' = Replace(c,
                IF conflict THEN Done(c, "InternalServerError", <<>>)
                ELSE Done(Write(c, "cart_items", "INSERT", c.cart), "ok", [id |-> c.cart]))
    /\ UNCHANGED <<provider, db, nextResponseId, started, failed, pipelineEntries,
                   stranded, turnFailures, overlapped, carts, activeDefault>>

\* an empty database whose column carts.active defaults to either value: the table
\* definitions are not part of the sources
CartInit ==
    /\ provider \in Providers
    /\ chat_sessions = {}
    /\ chat_messages = <<>>
    /\ chat_messages_actions = <<>>
    /\ nextResponseId = 1
    /\ inflight = EmptyBag
    /\ started = 0
    /\ failed = NoFailure
    /\ pipelineEntries = [a \in ActionIds |-> 0]
    /\ stranded = {}
    /\ turnFailures = [s \in SessionIds |-> 0]
    /\ overlapped = [a \in ActionIds |-> FALSE]
    /\ carts = <<>>
    /\ cart_items = <<>>
    /\ activeDefault \in BOOLEAN

\* the calls of addCart do not overlap: a request is made when the response of the
\* previous one has been sent
CartNext ==
    \/ \E p \in BodyProductIds, q \in BodyQuantities : inflight = EmptyBag /\ addCart(p, q)
    \/ \E c \in Requests : SelectProduct(c)
    \/ \E c \in Requests : SelectCart(c)
    \/ \E c \in Requests : UpsertItem(c)
    \/ \E c \in Requests : Deactivate(c)
    \/ \E c \in Requests : InsertCart(c)
    \/ \E c \in Requests : InsertItem(c)
    \/ \E c \in Requests : Return(c)

\* the requests POST /cart on their own
CartSpec == CartInit /\ [][CartNext]_vars

(* ------------------------------ properties ---------------------------- *)

Actions == {chat_messages_actions[i] : i \in 1..Len(chat_messages_actions)}

Messages == {chat_messages[i] : i \in 1..Len(chat_messages)}

\* the confirm requests that are being answered
ConfirmDone == {c \in Requests : c.op = "confirmAction" /\ c.pc = "done"}

\* the turn submissions that are being answered
TurnDone == {c \in Requests : c.op = "addUserMessage" /\ c.pc = "done"}

\* the turn submissions that ended at the provider call
TurnFailedAtProvider == {c \in TurnDone : c.at = "answer"}

\* C1: however confirm requests on one action id interleave, the action is confirmed
\* exactly once: the UPDATE of confirmed_at runs once and one request enters the
\* execution pipeline, every other request ending with Conflict or NotFound.
ConfirmedExactlyOnce ==
    \A a \in ActionIds : confirmWrites(a) <= 1 /\ pipelineEntries[a] <= 1

\* C2: the pipeline of an action (its embedInput call) is started only by a confirm
\* request and only once that action's confirmed_at is set; turn submissions and
\* session reads never call embedInput, and an unconfirmed action was never executed.
ExecutedOnlyAfterConfirm ==
    /\ \A a \in ActionIds : pipelineEntries[a] > 0 =>
            \E r \in Actions : r.id = a /\ r.confirmed_at # NULL
    /\ \A r \in Actions : r.confirmed_at = NULL => pipelineEntries[r.id] = 0
    /\ \A c \in Requests :
            /\ c.providerCalls # <<>> /\ c.op # "confirmAction" =>
                    c.op = "addUserMessage" /\ c.providerCalls = <<"answerMessage">>
            /\ c.providerCalls # <<>> /\ c.op = "confirmAction" =>
                    ActionState(c.actionId) = "confirmed"

\* a confirm request has run the pipeline of a confirmed action to its result
ExecutedOnlyAfterConfirmWitness ==
    \E c \in ConfirmDone :
        /\ c.status = "ok"
        /\ pipelineEntries[c.actionId] = 1
        /\ ActionState(c.actionId) = "confirmed"

\* C3: while the confirm requests on an action have not overlapped, confirmed_at of
\* that action has been written at most once and its pipeline entered at most once.
ConfirmOnceWithoutOverlap ==
    \A a \in ActionIds : ~overlapped[a] => confirmWrites(a) <= 1 /\ pipelineEntries[a] <= 1

\* a second confirm request, started after the first one was answered, is answered
ConfirmOnceWithoutOverlapWitness ==
    \E c \in ConfirmDone :
        /\ c.afterConfirmed /\ c.at = "selectAction"
        /\ ~overlapped[c.actionId]
        /\ confirmWrites(c.actionId) = 1
        /\ pipelineEntries[c.actionId] = 1

\* C4: a confirm request with an existing session, started after the action was
\* confirmed by a request that has been answered, fails with Conflict.
ReconfirmIsConflict ==
    \A c \in ConfirmDone : c.sessionExisted /\ c.afterConfirmed => c.status = "Conflict"

\* C5: a confirm request with an existing session whose lookup meets no row with the
\* given id, or a confirmed one, fails with NotFound there, having written nothing
\* and called no provider.
MissingOrConfirmedIsNotFound ==
    \A c \in Requests :
        c.seen \in {"absent", "confirmed"} =>
            /\ c.op = "confirmAction" /\ c.pc = "done"
            /\ c.sessionExisted
            /\ c.at = "selectAction" /\ c.status = "NotFound"
            /\ c.writes = <<>>
            /\ c.providerCalls = <<>>

\* a confirm request on an already confirmed action is answered NotFound
MissingOrConfirmedIsNotFoundWitness ==
    \E c \in ConfirmDone :
        c.sessionExisted /\ c.seen = "confirmed" /\ c.status = "NotFound"

\* C6: a confirm request naming a session that does not exist fails with NotFound at
\* the session lookup: the action is not looked up, nothing is written, no provider
\* is called.
MissingSessionIsNotFound ==
    \A c \in Requests :
        c.op = "confirmAction" /\ ~c.sessionExisted =>
            /\ c.pc = "done"
            /\ c.at = "selectSession" /\ c.status = "NotFound"
            /\ c.seen = ""
            /\ c.writes = <<>>
            /\ c.providerCalls = <<>>

\* the refused request named an existing action that is still unconfirmed
MissingSessionIsNotFoundWitness ==
    \E c \in ConfirmDone :
        /\ ~c.sessionExisted /\ c.status = "NotFound"
        /\ ActionState(c.actionId) = "unconfirmed"

\* C7: a successful confirm of a suggest_carts action has called embedInput and then,
\* after the retrieval, suggestCarts, whose cart proposals it returns.
ConfirmAssemblesCarts ==
    \A c \in ConfirmDone : c.status = "ok" =>
        c.providerCalls = <<"embedInput", "suggestCarts">>

\* C8: after a successful confirm the action has executed_at set, after a confirm
\* that failed once confirmed_at was written it has executed_at unset, and
\* executed_at is never set on an unconfirmed action.
ExecutedAtMarksSuccess ==
    /\ \A c \in ConfirmDone :
            /\ c.status = "ok" =>
                    \E r \in Actions : r.id = c.actionId /\ r.executed_at # NULL
            /\ c.status # "ok" /\ c.writes # <<>> /\ ~overlapped[c.actionId] =>
                    \E r \in Actions : r.id = c.actionId /\ r.executed_at = NULL
    /\ \A r \in Actions : r.executed_at # NULL => r.confirmed_at # NULL

\* what a failed turn has written: the INSERT of its own user message and nothing else
FailedTurnWrites ==
    \A c \in TurnFailedAtProvider :
        /\ c.status \in {"BadGateway", "InternalServerError"}
        /\ c.writes = <<[table |-> "chat_messages", kind |-> "INSERT", id |-> c.userMessage]>>
        /\ \E m \in Messages : /\ m.id = c.userMessage /\ m.sender = "user"
                               /\ m.content = c.content
                               /\ m.chat_session_id = c.sessionId
        /\ c.llmMessage = NULL

\* the step at which a turn fails changes no table, and no step of any request
\* changes or removes a message or an action that is already stored
HistoryPreserved ==
    /\ (\E c \in BagToSet(inflight') : c.pc = "done" /\ c.at = "answer") => db' = db
    /\ Len(chat_messages') >= Len(chat_messages)
    /\ \A i \in 1..Len(chat_messages) : chat_messages'[i] = chat_messages[i]
    /\ Len(chat_messages_actions') >= Len(chat_messages_actions)
    /\ \A i \in 1..Len(chat_messages_actions) :
            [chat_messages_actions'[i] EXCEPT !.confirmed_at = NULL]
                = [chat_messages_actions[i] EXCEPT !.confirmed_at = NULL]

\* C9: a turn whose provider call fails leaves exactly one new row, its user message:
\* no assistant message, no action, and no stored message or action is changed or
\* removed.
FailedTurnKeepsUserMessageOnly == []FailedTurnWrites /\ [][HistoryPreserved]_vars

\* a turn has failed at the provider call after an earlier turn of the same session
\* stored its messages and its action
FailedTurnKeepsUserMessageOnlyWitness ==
    \E c \in TurnFailedAtProvider :
        /\ \E m \in Messages : /\ m.chat_session_id = c.sessionId
                               /\ m.sender = "assistant"
                               /\ m.id < c.userMessage
        /\ Actions # {}

\* C10: with either provider, a turn whose provider call fails (API failure,
\* unparseable text, schema-invalid text) fails with BadGateway and stores no reply.
TurnFailureIsBadGateway ==
    \A c \in TurnDone :
        c.raw \in {"api_error", "unparseable", "schema_invalid"} =>
            c.status = "BadGateway" /\ c.llmMessage = NULL

\* payloads a proposal can carry
Payloads == {[input |-> "bolo"], [input |-> "pao"]}

\* C12: no two actions share (chat_message_id, action_type), and a further proposal
\* for the pair of a stored action, with the same or another payload, leaves the
\* table as it is: no row is added and the stored row keeps its payload,
\* confirmed_at and executed_at.
OneActionPerMessageAndType ==
    /\ \A i, j \in 1..Len(chat_messages_actions) :
            /\ chat_messages_actions[i].chat_message_id = chat_messages_actions[j].chat_message_id
            /\ chat_messages_actions[i].action_type = chat_messages_actions[j].action_type
            => i = j
    /\ \A i \in 1..Len(chat_messages_actions), payload \in Payloads :
            InsertActionRow(chat_messages_actions, chat_messages_actions[i].chat_message_id,
                            chat_messages_actions[i].action_type, payload)
                = chat_messages_actions

\* two turns have proposed actions and one of the actions has been confirmed
OneActionPerMessageAndTypeWitness ==
    /\ Len(chat_messages_actions) >= 2
    /\ \E r \in Actions : r.confirmed_at # NULL

\* the turns being answered successfully whose reply proposed the given action type
TurnAnswered(type) ==
    {c \in TurnDone : c.status = "ok" /\ c.llmResponse.action.type = type}

\* the rows of a table that request c has inserted
Inserted(c, table) ==
    LET IsInsert(w) == w.table = table /\ w.kind = "INSERT"
    IN  SelectSeq(c.writes, IsInsert)

\* C13: a successful turn whose reply proposes suggest_carts has created exactly one
\* action; the action references the assistant message stored by that turn, carries
\* the proposed payload and has confirmed_at and executed_at unset. Every stored
\* action references an assistant message.
ProposalCreatesOneAction ==
    /\ \A c \in TurnAnswered("suggest_carts") :
            /\ Len(Inserted(c, "chat_messages_actions")) = 1
            /\ \E r \in Actions :
                    /\ r.id = Inserted(c, "chat_messages_actions")[1].id
                    /\ r.chat_message_id = c.llmMessage
                    /\ r.action_type = "suggest_carts"
                    /\ r.payload = c.llmResponse.action.payload
                    /\ r.confirmed_at = NULL /\ r.executed_at = NULL
            /\ \E m \in Messages : /\ m.id = c.llmMessage /\ m.sender = "assistant"
                                   /\ m.chat_session_id = c.sessionId
                                   /\ m.content = c.llmResponse.message
    /\ \A r \in Actions :
            \E m \in Messages : m.id = r.chat_message_id /\ m.sender = "assistant"

\* a second turn proposing suggest_carts is answered
ProposalCreatesOneActionWitness ==
    \E c \in TurnAnswered("suggest_carts") : Len(chat_messages_actions) = 2

\* C14: a successful turn whose reply proposes no action (send_message) has appended
\* exactly two messages to its session, the user message and then the assistant
\* message, and has created no action.
PlainReplyAppendsTwoMessages ==
    \A c \in TurnAnswered("send_message") :
        /\ c.writes = <<[table |-> "chat_messages", kind |-> "INSERT", id |-> c.userMessage],
                        [table |-> "chat_messages", kind |-> "INSERT", id |-> c.llmMessage]>>
        /\ \E u, a \in Messages :
                /\ u.id = c.userMessage /\ a.id = c.llmMessage
                /\ u.chat_session_id = c.sessionId /\ a.chat_session_id = c.sessionId
                /\ u.sender = "user" /\ u.content = c.content
                /\ a.sender = "assistant" /\ a.content = c.llmResponse.message
                /\ u.created_at < a.created_at
        /\ \A r \in Actions : r.chat_message_id \notin {c.userMessage, c.llmMessage}

\* a turn with a plain reply is answered in a session that already holds an action
PlainReplyAppendsTwoMessagesWitness ==
    \E c \in TurnAnswered("send_message") :
        \E r \in Actions, m \in Messages :
            m.id = r.chat_message_id /\ m.chat_session_id = c.sessionId

\* C15: a turn submission whose content is missing, empty or not a string is rejected
\* with BadRequest by the validation: it stores no message, writes nothing and
\* calls no provider.
InvalidContentIsBadRequest ==
    \A c \in Requests :
        /\ c.op = "addUserMessage"
        /\ \/ c.body.type = "undefined"
           \/ c.body.type = "string" /\ c.body.text = ""
           \/ c.body.type # "string"
        => /\ c.pc = "done" /\ c.at = "validate" /\ c.status = "BadRequest"
           /\ c.writes = <<>> /\ c.userMessage = NULL /\ c.llmMessage = NULL
           /\ c.providerCalls = <<>>

\* a submission whose content is a number is rejected
InvalidContentIsBadRequestWitness ==
    \E c \in TurnDone : c.body.type = "number" /\ c.status = "BadRequest"

\* the session reads being answered with a session that has messages
ReadDone ==
    {c \in Requests : /\ c.op = "getChatSession" /\ c.pc = "done" /\ c.status = "ok"
                      /\ MessagesOf(c.sessionId) # <<>>}

\* C16: getChatSession returns the messages of the session in the order they were
\* appended, that is by increasing creation time.
ReadOrderIsAppendOrder ==
    \A c \in ReadDone :
        \A i, j \in 1..Len(c.value.messages) :
            i < j => c.value.messages[i].created_at < c.value.messages[j].created_at

\* the confirm requests being answered with the result of the retrieval
Retrieved == {c \in ConfirmDone : c.status = "ok"}

\* the ids of the products a retrieval result holds
CandidateIds(result) == UNION {{q.id : q \in g.products} : g \in result}

\* C17: the retrieval returns a product iff its distance to the query vector is
\* strictly below 0.65: of the distances 0.10, 0.50, 0.64, 0.65, 0.90 to vector v1
\* it returns the products at 0.10, 0.50 and 0.64 and not the one at 0.65.
RetrievalIsStrictlyBelowThreshold ==
    \A c \in Retrieved :
        /\ \A p \in Products :
                p.id \in CandidateIds(c.value) <=> p.dist[c.embeddings.embedding] < 65
        /\ c.embeddings.embedding = "v1" => CandidateIds(c.value) = {1, 2, 3}

\* a confirm request has retrieved for vector v1, to which a product is at 0.65
RetrievalIsStrictlyBelowThresholdWitness ==
    \E c \in Retrieved :
        /\ c.embeddings.embedding = "v1"
        /\ \E p \in Products : p.dist["v1"] = 65 /\ p.id \notin CandidateIds(c.value)

\* the groups of a retrieval result partition the products below the threshold by
\* store, and no group is empty
GroupedByStore(result, embedding) ==
    /\ \A g, h \in result : g.store_id = h.store_id => g = h
    /\ \A g \in result :
            /\ g.products # {}
            /\ {q.id : q \in g.products} =
                    {p.id : p \in {x \in Products : /\ x.store_id = g.store_id
                                                    /\ x.dist[embedding] < 65}}
    /\ \A p \in Products :
            p.dist[embedding] < 65 => \E g \in result : g.store_id = p.store_id

\* every candidate of a retrieval result carries its score under the key similarity
AnnotatedWithSimilarity(result, embedding) ==
    \A g \in result : \A q \in g.products :
        /\ "similarity" \in DOMAIN q
        /\ \E p \in Products : p.id = q.id /\ q.similarity = p.dist[embedding]

\* C18: the retrieval result partitions the candidates by store: every store with a
\* candidate appears once, with all and only its products below the threshold, each
\* annotated with its similarity score; a store without candidate is absent.
CandidatesGroupedAndAnnotated ==
    \A c \in Retrieved :
        /\ GroupedByStore(c.value, c.embeddings.embedding)
        /\ AnnotatedWithSimilarity(c.value, c.embeddings.embedding)

\* the calls of suggestCarts that have returned
SuggestDone == {c \in Requests : c.op = "suggestCarts" /\ c.pc = "done"}

\* C19: every cart list that suggestCarts returns names only product ids of the
\* candidates it was called with; an answer of the provider that names a product
\* outside the candidates is not returned.
AcceptedCartsNameCandidatesOnly ==
    \A c \in SuggestDone :
        c.status = "value" =>
            \A k \in c.value : k.products \subseteq CandidateIds(c.candidates)

\* the turn submissions of which the provider has been asked
ProviderAsked ==
    {c \in Requests : c.op = "addUserMessage" /\ c.providerCalls # <<>>}

\* the messages of the session of turn c stored before its user message, in append
\* order, as role and content
PriorHistory(c) ==
    LET rows == SelectSeq(chat_messages,
                          LAMBDA m : m.chat_session_id = c.sessionId /\ m.id < c.userMessage)
    IN  [i \in 1..Len(rows) |-> [role |-> rows[i].sender, content |-> rows[i].content]]

\* C20: on every turn the provider is called with the new text, the prior handle and
\* the full ordered history of the session's earlier messages.
TurnPassesHistory ==
    \A c \in ProviderAsked :
        /\ Len(c.passed) = 3
        /\ c.passed[1] = c.content
        /\ c.passed[2] = c.handle
        /\ c.passed[3] = PriorHistory(c)

\* the turn submissions being served that resubmit the text of a failed submission
Retries == {c \in Requests : c.op = "addUserMessage" /\ c.retry.kind = "retry"}

RepliesOf(sessionId) ==
    SelectSeq(chat_messages,
              LAMBDA m : m.chat_session_id = sessionId /\ m.sender = "assistant")

\* the turn submissions that passed the validation
TurnsServed ==
    {c \in Requests : c.op = "addUserMessage" /\ ~(c.pc = "done" /\ c.at = "validate")}

\* C21: the handle of a turn is the openai_message_id of the assistant message of its
\* session that was the most recent one when the turn started, or null when the
\* session had none; it is the handle passed to answerMessage.
HandleIsLastReplyOfSession ==
    \A c \in TurnsServed :
        /\ c.handle = IF c.repliesSeen = 0 THEN NULL
                      ELSE RepliesOf(c.sessionId)[c.repliesSeen].openai_message_id
        /\ c.passed # <<>> => c.passed[2] = c.handle

\* the provider was asked with the handle of an earlier reply of the session, the row
\* stored just before the turn's user message being a user message
HandleIsLastReplyOfSessionWitness ==
    \E c \in ProviderAsked :
        /\ c.handle # NULL
        /\ c.passed[2] = c.handle
        /\ chat_messages[c.userMessage - 1].sender = "user"

\* a confirm request whose embedInput call fails ends with BadGateway and leaves the
\* action confirmed and not executed
EmbedFailureLeavesConfirmed ==
    \A c \in ConfirmDone :
        c.at = "embed" =>
            /\ c.status = "BadGateway"
            /\ c.actionId \in stranded
            /\ \E r \in Actions : /\ r.id = c.actionId
                                  /\ r.confirmed_at # NULL /\ r.executed_at = NULL

\* a confirm request started after an embedInput call for its action failed is
\* rejected at a lookup: it writes nothing and calls no provider
LaterConfirmIsRejected ==
    \A c \in Requests :
        c.op = "confirmAction" /\ c.afterStranded =>
            /\ c.writes = <<>> /\ c.providerCalls = <<>>
            /\ c.pc \in {"selectAction", "done"}
            /\ c.pc = "done" => c.status \in {"NotFound", "Conflict"}

\* no step calls embedInput for an action for which a call has failed
StrandedNeverRunsAgain ==
    \A a \in stranded : pipelineEntries'[a] = pipelineEntries[a]

\* C22: a confirm request whose embedding fails ends with a gateway error and leaves
\* the action confirmed with executed_at unset; from then on every later confirm
\* request on the action is rejected and the pipeline of the action never runs again.
StrandedForever ==
    /\ []EmbedFailureLeavesConfirmed
    /\ []LaterConfirmIsRejected
    /\ [][StrandedNeverRunsAgain]_vars

\* the confirm requests that read an unconfirmed action of a type other than
\* suggest_carts
Unsupported ==
    {c \in Requests : /\ c.op = "confirmAction" /\ c.rows # <<>>
                      /\ c.rows[1].action_type # "suggest_carts"}

\* C23: a confirm request on an unconfirmed action whose type is not suggest_carts
\* fails at the dispatch with the unsupported-type error and calls no provider: it
\* neither embeds nor retrieves nor assembles carts.
UnsupportedTypeFails ==
    \A c \in Unsupported :
        /\ c.pc \in {"update", "done"}
        /\ c.providerCalls = <<>>
        /\ c.embeddings = NoResponse
        /\ c.pc = "done" => /\ c.at = "update" /\ c.status = "InternalServerError"
                            /\ c.value = <<>>
        /\ pipelineEntries[c.actionId] = 0

\* a confirm request on an action of type commit_cart has failed at the dispatch
UnsupportedTypeFailsWitness ==
    \E c \in Unsupported :
        /\ c.pc = "done" /\ c.status = "InternalServerError"
        /\ c.rows[1].action_type = "commit_cart"

\* C24: embedInput returns a vector of 1536 components or fails: a confirm request
\* never holds an embedding of another dimensionality, so the retrieval is never
\* run with one; such an answer of the provider ends the request at embedInput with
\* the gateway error.
EmbeddingHasFullDimension ==
    \A c \in Requests :
        c.op = "confirmAction" /\ c.embeddings # NoResponse =>
            /\ c.embeddings.kind = "value"
            /\ Dimension(c.embeddings.embedding) = 1536

\* the calls of handleWebhookEvent that have returned or thrown
WebhookDone == {c \in Requests : c.op = "handleWebhookEvent" /\ c.pc = "done"}

\* C25: with either provider variant, handleWebhookEvent returns null and does not
\* throw for an event that is not batch.completed and for a batch.completed event
\* whose batch has no output.
NotApplicableEventIsNull ==
    \A c \in WebhookDone :
        \/ c.event = "batch.failed"
        \/ c.event = "batch.completed" /\ c.batch.kind \in {"missing", "no_output"}
        => c.status = "null"

\* the turn submissions being answered successfully
TurnSucceeded == {c \in TurnDone : c.status = "ok"}

\* C26: a successful turn returns the user message it stored itself: the row of its
\* own INSERT, with the submitted content, sender user and its session, and not the
\* assistant message.
TurnReturnsItsUserMessage ==
    \A c \in TurnSucceeded :
        /\ c.value.id = Inserted(c, "chat_messages")[1].id
        /\ c.value.id = c.userMessage /\ c.value.id # c.llmMessage
        /\ c.value.content = c.content /\ c.value.content = c.body.text
        /\ c.value.sender = "user"
        /\ c.value.chat_session_id = c.sessionId
        /\ c.value \in Messages

\* a turn is answered after another turn stored its messages in between
TurnReturnsItsUserMessageWitness ==
    \E c \in TurnSucceeded : c.llmMessage > c.userMessage + 1

\* C27: every user message has openai_message_id null; an assistant message carries
\* the response id that answerMessage returned to the turn that stored it, and no
\* two assistant messages carry the same one.
OnlyRepliesCarryHandle ==
    /\ \A m \in Messages :
            /\ m.sender = "user" => m.openai_message_id = NULL
            /\ m.sender = "assistant" => m.openai_message_id # NULL
    /\ LET replies == {m \in Messages : m.sender = "assistant"}
       IN  Cardinality({m.openai_message_id : m \in replies}) = Cardinality(replies)
    /\ \A c \in TurnsServed :
            /\ c.userMessage # NULL =>
                    /\ chat_messages[c.userMessage].sender = "user"
                    /\ chat_messages[c.userMessage].openai_message_id = NULL
            /\ c.llmMessage # NULL =>
                    /\ chat_messages[c.llmMessage].sender = "assistant"
                    /\ chat_messages[c.llmMessage].openai_message_id
                            = c.llmResponse.responseId

\* a turn that had read the handle of an earlier reply is answered
OnlyRepliesCarryHandleWitness ==
    \E c \in TurnSucceeded :
        /\ c.handle # NULL
        /\ chat_messages[c.llmMessage].openai_message_id # c.handle

\* a step of a confirm request, its start included, leaves the sessions and the
\* messages as they are, adds and removes no action, and changes at most
\* confirmed_at and executed_at of the action the request names
ConfirmStepFrame ==
    \A c \in BagToSet(inflight') :
        c.op = "confirmAction" /\ CopiesIn(c, inflight') > CopiesIn(c, inflight) =>
            /\ chat_sessions' = chat_sessions
            /\ chat_messages' = chat_messages
            /\ Len(chat_messages_actions') = Len(chat_messages_actions)
            /\ \A i \in 1..Len(chat_messages_actions) :
                    IF chat_messages_actions[i].id = c.actionId
                    THEN [chat_messages_actions'[i] EXCEPT !.confirmed_at = NULL,
                                                          !.executed_at = NULL]
                            = [chat_messages_actions[i] EXCEPT !.confirmed_at = NULL,
                                                               !.executed_at = NULL]
                    ELSE chat_messages_actions'[i] = chat_messages_actions[i]

\* the writes of a confirm request are at most the UPDATE of its action, and what it
\* returns is no row of a table
ConfirmWrites ==
    \A c \in Requests :
        c.op = "confirmAction" =>
            /\ c.writes \in {<<>>, <<[table |-> "chat_messages_actions", kind |-> "UPDATE",
                                      id |-> c.actionId]>>}
            /\ c.pc = "done" /\ c.status = "ok" =>
                    c.value = RelevantProductsGroupedByStore(c.embeddings.embedding)

\* C28: in every outcome confirmAction leaves sessions and messages unchanged and
\* persists nothing but confirmed_at / executed_at of the one action it was called
\* with; the result of the execution is returned and not stored.
ConfirmPersistsOnlyItsAction == []ConfirmWrites /\ [][ConfirmStepFrame]_vars

\* a confirm request is answered with its result while another action is stored
\* and still unconfirmed
ConfirmPersistsOnlyItsActionWitness ==
    \E c \in ConfirmDone :
        /\ c.status = "ok"
        /\ \E r \in Actions : r.id # c.actionId /\ r.confirmed_at = NULL

\* the session reads being answered
ReadAnswered == {c \in Requests : c.op = "getChatSession" /\ c.pc = "done"}

\* the object of the messages array that stands for the stored message m
MessageObject(m, action) ==
    [id |-> m.id, content |-> m.content, sender |-> m.sender,
     openai_message_id |-> m.openai_message_id, created_at |-> m.created_at,
     message_type |-> m.message_type, action |-> action]

\* C29: getChatSession finds nothing for a session id that does not exist; for an
\* existing session it returns one record that holds every message of the session
\* exactly once and no message of another session, each message with its action
\* when it has one and with null otherwise.
ReadReturnsSessionMessages ==
    \A c \in ReadAnswered :
        LET mine == {m \in Messages : m.chat_session_id = c.sessionId}
        IN  /\ c.status \in {"ok", "NotFound"}
            /\ c.status = "NotFound" <=> \A s \in chat_sessions : s.id # c.sessionId
            /\ c.status = "ok" =>
                    /\ c.value.id = c.sessionId
                    /\ IF mine = {} THEN c.value.messages = NULL
                       ELSE /\ Len(c.value.messages) = Cardinality(mine)
                            /\ \A m \in mine :
                                    \E i \in 1..Len(c.value.messages) :
                                        \/ /\ \A r \in Actions : r.chat_message_id # m.id
                                           /\ c.value.messages[i] = MessageObject(m, NullAction)
                                        \/ \E r \in Actions :
                                              /\ r.chat_message_id = m.id
                                              /\ c.value.messages[i] = MessageObject(m, r)

\* a read is answered with the messages of a session, of which one has an action
ReadReturnsSessionMessagesWitness ==
    \E c \in ReadAnswered :
        /\ c.status = "ok"
        /\ \E r \in Actions, m \in Messages :
                r.chat_message_id = m.id /\ m.chat_session_id = c.sessionId

\* the confirm requests whose session exists and whose lookup met the action
\* unconfirmed
Confirming ==
    {c \in Requests : c.op = "confirmAction" /\ c.sessionExisted /\ c.seen = "unconfirmed"}

\* C30: a confirm request that names an existing session and an unconfirmed action
\* confirms and executes the action whichever session the action's message belongs
\* to: it is past the lookup, writes confirmed_at of the action, calls embedInput for
\* it, and ends only with the outcome of the pipeline.
ConfirmIgnoresOwningSession ==
    \A c \in Confirming :
        /\ c.pc \in {"update", "embed", "retrieve", "done"}
        /\ c.pc # "update" =>
                /\ c.writes = <<[table |-> "chat_messages_actions", kind |-> "UPDATE",
                                 id |-> c.actionId]>>
                /\ ActionState(c.actionId) = "confirmed"
        /\ c.pc \in {"retrieve", "done"} =>
                c.providerCalls = <<"embedInput">> /\ pipelineEntries[c.actionId] >= 1
        /\ c.pc = "done" => c.at \in {"embed", "retrieve"}

\* a confirm request that named another session than the one of the action's message
\* is answered with the result of the pipeline
ConfirmIgnoresOwningSessionWitness ==
    \E c \in Confirming :
        /\ c.pc = "done" /\ c.status = "ok"
        /\ \E r \in Actions : r.id = c.actionId /\ SessionOfAction(r) # c.sessionId

\* the turn submissions being served whose answerMessage call has succeeded
TurnsAnswered ==
    {c \in Requests : c.op = "addUserMessage" /\ c.llmResponse.kind = "value"}

\* C31: no two successful answerMessage calls of one session receive the same prior
\* handle, also when the turn submissions overlap (stated for handles of stored
\* replies; two first turns that both pass null fork the session the same way).
ChainNeverForks ==
    \A c \in TurnsAnswered : \A d \in TurnsAnswered :
        (c # d /\ c.sessionId = d.sessionId /\ c.handle # NULL) => c.handle # d.handle

\* the confirm requests that have passed the dispatch on the action type
Dispatched ==
    {c \in Requests : /\ c.op = "confirmAction"
                      /\ \/ c.pc \in {"embed", "retrieve"}
                         \/ c.pc = "done" /\ c.at \in {"embed", "retrieve"}}

\* C32: every action created by addUserMessage has the type suggest_carts, so with
\* actions created by turns only no confirm request ends with the unsupported-type
\* error of the dispatch.
OnlySuggestCartsIsCreated ==
    /\ \A a \in Actions : a.action_type = "suggest_carts"
    /\ Unsupported = {}
    /\ \A c \in Requests :
          c.op = "confirmAction" /\ c.pc = "done" => c.at # "update"

\* a confirm request on an action that a turn created has passed the dispatch
OnlySuggestCartsIsCreatedWitness ==
    \E c \in Dispatched : \E a \in Actions :
        /\ a.id = c.actionId
        /\ chat_messages[a.chat_message_id].sender = "assistant"

\* the user messages of a session, by id
UserMessagesOf(sessionId) ==
    {i \in 1..Len(chat_messages) : /\ chat_messages[i].chat_session_id = sessionId
                                   /\ chat_messages[i].sender = "user"}

\* the assistant messages of a session, by id
AssistantMessagesOf(sessionId) ==
    {i \in 1..Len(chat_messages) : /\ chat_messages[i].chat_session_id = sessionId
                                   /\ chat_messages[i].sender = "assistant"}

\* the turns of a session being served that have stored their user message and have
\* neither stored a reply nor failed at the provider call
TurnsPending(sessionId) ==
    {c \in TurnsServed : /\ c.sessionId = sessionId
                         /\ c.userMessage # NULL /\ c.llmMessage = NULL
                         /\ ~(c.pc = "done" /\ c.at = "answer")}

\* C33: within a turn the user message is stored before answerMessage is called and
\* the assistant message only after the call succeeded; every session holds one user
\* message per turn that reached the provider call and one assistant message per
\* turn whose call succeeded, hence at least as many user as assistant messages, and
\* k failed attempts followed by a successful one leave k+1 user messages with the
\* submitted content and one assistant message.
UserMessageBeforeReply ==
    /\ \A c \in TurnsServed :
          /\ c.providerCalls # <<>> =>
                /\ c.userMessage # NULL
                /\ chat_messages[c.userMessage].sender = "user"
                /\ chat_messages[c.userMessage].chat_session_id = c.sessionId
                /\ chat_messages[c.userMessage].content = c.content
          /\ c.llmMessage # NULL =>
                /\ c.llmResponse.kind = "value"
                /\ c.userMessage < c.llmMessage
                /\ chat_messages[c.llmMessage].sender = "assistant"
                /\ chat_messages[c.llmMessage].chat_session_id = c.sessionId
    /\ \A s \in {r.id : r \in chat_sessions} :
          LET users == Cardinality(UserMessagesOf(s))
              replies == Cardinality(AssistantMessagesOf(s))
          IN  /\ users >= replies
              /\ users = replies + turnFailures[s] + Cardinality(TurnsPending(s))

\* a turn has failed twice and succeeded on the third submission: the session holds
\* three user messages with one content and one assistant message, stored last
UserMessageBeforeReplyWitness ==
    \E s \in SessionIds :
        /\ turnFailures[s] = 2
        /\ Cardinality(UserMessagesOf(s)) = 3
        /\ Cardinality({chat_messages[i].content : i \in UserMessagesOf(s)}) = 1
        /\ Cardinality(AssistantMessagesOf(s)) = 1
        /\ chat_messages[Len(chat_messages)].sender = "assistant"
        /\ Requests = {}

\* the addCart requests whose response is being sent
CartDone == {c \in Requests : c.op = "addCart" /\ c.pc = "done"}

\* the write log of a request, as table and kind
WritesOf(c) == [i \in 1..Len(c.writes) |-> <<c.writes[i].table, c.writes[i].kind>>]

\* a step taken while the request being served has not found its product leaves the
\* cart tables as they are
CartFrame ==
    (\E c \in BagToSet(inflight') : c.op = "addCart" /\ c.products = <<>>)
        => UNCHANGED <<carts, cart_items>>

\* the state part of C34
CartAnswers ==
    /\ Len(ActiveCarts(cartUserId)) <= 1
    /\ \A c \in CartDone :
          /\ (c.at # "validate" /\ SelectProductRows(c.productId) = <<>>)
                <=> c.status = "NotFound"
          /\ c.status = "NotFound" => c.writes = <<>> /\ c.at = "selectProduct"
          /\ c.status \in {"ok", "NotFound", "BadRequest"}
          /\ (c.status = "ok" /\ c.at = "upsertItem") =>
                /\ c.cart = NULL
                /\ WritesOf(c) = << <<"cart_items", "UPSERT">> >>
                /\ c.value = [id |-> c.existingCart[1].id]
                /\ carts[c.value.id].active
                /\ carts[c.value.id].user_id = cartUserId
                /\ carts[c.value.id].store_id = c.products[1].store_id
          /\ (c.status = "ok" /\ c.at = "insertItem") =>
                /\ c.value = [id |-> c.cart]
                /\ carts[c.cart].store_id = c.products[1].store_id
                /\ carts[c.cart].active = activeDefault
                /\ \A i \in 1..Len(carts) : i # c.cart => ~carts[i].active
                /\ IF c.existingCart = <<>>
                   THEN WritesOf(c) = << <<"carts", "INSERT">>, <<"cart_items", "INSERT">> >>
                   ELSE /\ WritesOf(c) = << <<"carts", "UPDATE">>, <<"carts", "INSERT">>,
                                            <<"cart_items", "INSERT">> >>
                        /\ c.writes[1].id = c.existingCart[1].id
                        /\ c.existingCart[1].store_id # c.products[1].store_id

\* C34: after addCart calls that do not overlap the user has at most one active
\* cart; a product of the active cart's store is added to that cart, a product of
\* another store deactivates the active cart before the new one is created, and a
\* product id that does not exist ends in NotFound with no cart state changed.
AtMostOneActiveCart == []CartAnswers /\ [][CartFrame]_vars

\* a product of another store was added: the cart that was active is inactive, the
\* new cart is the one active cart of two
AtMostOneActiveCartWitness ==
    \E c \in CartDone :
        /\ c.status = "ok" /\ c.at = "insertItem" /\ c.existingCart # <<>>
        /\ ~carts[c.existingCart[1].id].active
        /\ carts[c.cart].active
        /\ Len(ActiveCarts(cartUserId)) = 1

\* the rows of cart_items of a cart and a product, in a table
ItemRows(rows, cart_id, product_id) ==
    {i \in 1..Len(rows) : rows[i].cart_id = cart_id /\ rows[i].product_id = product_id}

\* C35: after addCart calls that do not overlap every item of a cart is a product of
\* the cart's store, a cart and a product have at most one item row, and adding a
\* product that is already in the active cart adds the amount to the quantity of its
\* row and stores no second row.
ItemsBelongToCartStore ==
    /\ \A i \in 1..Len(cart_items) :
          /\ \E p \in Products : /\ p.id = cart_items[i].product_id
                                 /\ p.store_id = carts[cart_items[i].cart_id].store_id
          /\ ItemRows(cart_items, cart_items[i].cart_id, cart_items[i].product_id) = {i}
    /\ \A c \in CartDone :
          (c.status = "ok" /\ c.at = "upsertItem") =>
              LET old == ItemRows(c.itemsSeen, c.existingCart[1].id, c.productId)
              IN  IF old = {}
                  THEN cart_items = Append(c.itemsSeen,
                            [cart_id |-> c.existingCart[1].id, product_id |-> c.productId,
                             quantity |-> c.quantity])
                  ELSE /\ Len(cart_items) = Len(c.itemsSeen)
                       /\ \A i \in 1..Len(cart_items) :
                            cart_items[i] =
                                IF i \in old
                                THEN [c.itemsSeen[i] EXCEPT !.quantity = @ + c.quantity]
                                ELSE c.itemsSeen[i]

\* two units of a product were added to the active cart that held it, next to another
\* item of the cart
ItemsBelongToCartStoreWitness ==
    \E c \in CartDone :
        /\ c.status = "ok" /\ c.at = "upsertItem" /\ c.quantity = 2
        /\ ItemRows(c.itemsSeen, c.existingCart[1].id, c.productId) # {}
        /\ Len(cart_items) = 2

====
